---- MODULE Spec2Model ----
(***************************************************************************)
(* Model of the corpl toggling engine (corpl/src/lib.rs: process_file and  *)
(* its byte helpers) and of the generic splitter it uses                   *)
(* (common/src/lib.rs: slice_split).                                       *)
(*                                                                         *)
(* Bytes are integers (their ASCII code), byte slices are sequences.       *)
(* Rust's Option<T> is a sequence of length 0 (None) or 1 (Some).          *)
(* Rust indices are 0-based: Slice(s, a, b) is &s[a..b].                   *)
(***************************************************************************)
EXTENDS Integers, Sequences, FiniteSets, TLC

VARIABLES
    \* ---- process_file: the inputs of one invocation
    file,             \* the bytes on disk
    comment_arg,      \* Option<Comment>: <<>> or <<[open |-> bytes, close |-> Option<bytes>]>>
    enabled,          \* HashSet of identifiers
    disabled,         \* HashSet of identifiers
    keep,             \* bool
    max_comment_len,  \* Option<usize>
    \* ---- process_file: the locals of the running call
    pc,               \* "start", "scan", "done", "exit" (print_exit), "panic"
    run,              \* which invocation in succession this is (1, 2, ...)
    config,           \* the bytes read by read_to_end
    line_ending,      \* get_line_ending(config)
    comment,          \* the resolved opening marker
    end_comment,      \* Option<bytes>: the closing marker
    current_pos,      \* Lines.current_pos
    state,            \* the Segment
    output,           \* the output buffer
    diag,             \* which fatal diagnostic print_exit printed ("" if none)
    \* ---- observation of the scan (history, not program state)
    last,             \* what the latest loop iteration did
    prev_file,        \* the bytes on disk when the running call started
    \* ---- main: the paths of one invocation of the program
    remaining,        \* the bytes on disk of the files named after the current one
    log,              \* history: [input, seg] of the files completed before it
    \* ---- slice_split: one SliceSplit iterator and what it has yielded
    ss,               \* [slice, predicate, index, last_split]
    yielded,          \* the slices next() has returned so far
    ss_done           \* next() has returned None

vars == <<file, comment_arg, enabled, disabled, keep, max_comment_len,
          pc, run, config, line_ending, comment, end_comment, current_pos,
          state, output, diag, last, prev_file, remaining, log, ss, yielded, ss_done>>

pf_params == <<comment_arg, enabled, disabled, keep, max_comment_len>>
pf_vars == <<file, pf_params, pc, run, config, line_ending, comment, end_comment,
             current_pos, state, output, diag, last, prev_file, remaining, log>>
mf_vars == <<remaining, log>>
ss_vars == <<ss, yielded, ss_done>>

---------------------------------------------------------------------------
\* Bounds of the model
MaxLines == 2       \* lines of a generated file
MaxRuns == 2        \* invocations of process_file in succession on the file
MaxConj == 2        \* conjuncts of a generated option expression
MaxSliceLen == 5    \* elements of a generated slice_split input
MaxSepLen == 2      \* elements of a generated slice_split separator
MaxYield == 8       \* calls of SliceSplit::next that yield a slice, per iterator

---------------------------------------------------------------------------
\* Option<T>
None == <<>>
Some(v) == <<v>>

\* &s[a..b] and &s[a..] with 0-based a, b (callers establish a <= b <= len)
Slice(s, a, b) == SubSeq(s, a + 1, b)
SliceFrom(s, a) == SubSeq(s, a + 1, Len(s))
\* <[T]>::starts_with
StartsWith(s, p) == Len(p) <= Len(s) /\ SubSeq(s, 1, Len(p)) = p

\* byte literals of the source
b_CORPL == <<32,67,79,82,80,76,32>>            \* b" CORPL "
b_end == <<101,110,100>>                       \* b"end"
b_end_sp == <<101,110,100,32>>                 \* b"end "
b_section == <<115,101,99,116,105,111,110,32>> \* b"section "
b_option == <<111,112,116,105,111,110,32>>     \* b"option "
b_and == <<32,38,38,32>>                       \* b" && "
b_bang == <<33>>                               \* b"!"
b_hash == <<35>>                               \* b"#"
b_slashes == <<47,47>>                         \* b"//"
b_semi == <<59>>                               \* b";"
b_lf == <<10>>                                 \* b"\n"
b_crlf == <<13,10>>                            \* b"\r\n"

---------------------------------------------------------------------------
\* common/src/lib.rs: slice_split

\* <&[T] as SliceSplitPredicate>::matches: Some(length) on a match, None on Continue
matches(predicate, rest) ==
    IF StartsWith(rest, predicate) THEN Some(Len(predicate)) ELSE None

\* The historical off-by-one of the splitter: the next slice starts one element early.
SplitMatchKeepLast(it, length) ==
    [it |-> [it EXCEPT !.last_split = it.index + length - 1],
     item |-> Some(Slice(it.slice, it.last_split, it.index))]

\* SliceSplit::next, the Match arm: yield the slice before the match, skip the match
SplitMatch(it, length) ==
    [it |-> [it EXCEPT !.last_split = it.index + length],
     item |-> Some(Slice(it.slice, it.last_split, it.index))]

\* SliceSplit::next: the loop, from the iterator's current index
RECURSIVE SliceSplitNext(_)
SliceSplitNext(it) ==
    IF it.index + 1 >= Len(it.slice)
    THEN IF it.last_split <= Len(it.slice)
         THEN [it |-> [it EXCEPT !.last_split = Len(it.slice) + 1],
               item |-> Some(SliceFrom(it.slice, it.last_split))]
         ELSE [it |-> it, item |-> None]
    ELSE LET m == IF it.last_split <= it.index
                  THEN matches(it.predicate, SliceFrom(it.slice, it.index))
                  ELSE None
         IN  IF m # None
             THEN SplitMatch(it, m[1])
             ELSE SliceSplitNext([it EXCEPT !.index = it.index + 1])

\* slice_split: the fresh iterator
slice_split(slice, predicate) ==
    [slice |-> slice, predicate |-> predicate, index |-> 0, last_split |-> 0]

\* `for option in options`: every slice the iterator yields, in order
RECURSIVE SplitCollect(_)
SplitCollect(it) ==
    LET r == SliceSplitNext(it)
    IN  IF r.item = None THEN <<>> ELSE <<r.item[1]>> \o SplitCollect(r.it)

---------------------------------------------------------------------------
\* corpl/src/lib.rs: byte helpers

is_whitespace(byte) == byte = 32 \/ byte \in 9..13

NonWs(bytes) == {i \in 1..Len(bytes) : ~is_whitespace(bytes[i])}
Min(S) == CHOOSE x \in S : \A y \in S : x <= y
Max(S) == CHOOSE x \in S : \A y \in S : x >= y

first_non_whitespace(bytes) ==
    IF NonWs(bytes) = {} THEN 0 ELSE Min(NonWs(bytes)) - 1

last_non_whitespace(bytes) ==
    IF NonWs(bytes) = {} THEN 0 ELSE Max(NonWs(bytes))

trim(bytes) ==
    Slice(bytes, first_non_whitespace(bytes), last_non_whitespace(bytes))

\* the first window instead of the last
get_first(bytes, to_match) ==
    LET n == Len(to_match)
        hits == {p \in 0..(Len(bytes) - n - 1) :
                    /\ Slice(bytes, p, p + n) = to_match
                    /\ bytes[p + n + 1] = 32}
    IN  IF hits = {} THEN None ELSE Some(SliceFrom(bytes, Min(hits) + n + 1))

\* the last window `to_match ++ b" "`; Some(what follows it)
get_last(bytes, to_match) ==
    LET n == Len(to_match)
        hits == {p \in 0..(Len(bytes) - n - 1) :
                    /\ Slice(bytes, p, p + n) = to_match
                    /\ bytes[p + n + 1] = 32}
    IN  IF hits = {} THEN None ELSE Some(SliceFrom(bytes, Max(hits) + n + 1))

\* a style that is "\n" whatever the file holds
get_line_ending_lf(bytes) == b_lf

get_line_ending(bytes) ==
    LET terms == {i \in 1..Len(bytes) : bytes[i] \in {13, 10}}
    IN  IF terms = {} THEN b_lf
        ELSE IF bytes[Min(terms)] = 13 THEN b_crlf ELSE b_lf

get_common_comments(bytes) ==
    IF StartsWith(bytes, b_hash) THEN Some(b_hash)
    ELSE IF StartsWith(bytes, b_slashes) THEN Some(b_slashes)
    ELSE IF StartsWith(bytes, b_semi) THEN Some(b_semi)
    ELSE None

\* Lines::next at current_pos: "none", "panic" (index out of range) or "some"
LinesNext(bytes, pos) ==
    IF pos = Len(bytes) THEN [kind |-> "none", line |-> <<>>, pos |-> pos]
    ELSE IF pos > Len(bytes)                      \* &self.bytes[current_pos..]
    THEN [kind |-> "panic", line |-> <<>>, pos |-> pos]
    ELSE LET terms == {i \in (pos + 1)..Len(bytes) : bytes[i] \in {13, 10}}
         IN  IF terms = {}                        \* self.bytes[end], end = len
             THEN [kind |-> "panic", line |-> <<>>, pos |-> pos]
             ELSE LET end == Min(terms) - 1
                  IN  [kind |-> "some",
                       line |-> Slice(bytes, pos, end),
                       pos |-> IF bytes[end + 1] = 13 THEN end + 2 ELSE end + 1]

\* first_line.split(pred).next().unwrap(): the bytes before the first separator
\* (separators: the set of bytes the predicate accepts)
FirstField(bytes, separators) ==
    LET seps == {i \in 1..Len(bytes) : bytes[i] \in separators}
    IN  IF seps = {} THEN bytes ELSE SubSeq(bytes, 1, Min(seps) - 1)

\* |b| is_whitespace(*b) and |b| b == &32 as sets of bytes
WhitespaceBytes == {b \in 0..255 : is_whitespace(b)}
SpaceByte == {32}

---------------------------------------------------------------------------
\* corpl/src/lib.rs: process_file

\* the Segment of the state machine
SegNone == [tag |-> "None", str |-> <<>>, opt |-> "-"]
SegSection(sec_str) == [tag |-> "Section", str |-> sec_str, opt |-> "-"]
SegOption(option_enabled) == [tag |-> "Option", str |-> <<>>, opt |-> option_enabled]

\* get_status with the disabled set consulted whether or not keep is on
GetStatusDisabledAlways(option) ==
    IF option \in disabled THEN Some(FALSE)
    ELSE IF option \in enabled THEN Some(TRUE)
    ELSE IF keep THEN None
    ELSE Some(FALSE)

\* get_status with the two lookups swapped: enabled is consulted first
GetStatusEnabledFirst(option) ==
    IF keep
    THEN IF option \in enabled THEN Some(TRUE)
         ELSE IF option \in disabled THEN Some(FALSE)
         ELSE None
    ELSE Some(option \in enabled)

\* the closure get_status: Option<bool>
get_status(option) ==
    IF keep
    THEN IF option \in disabled THEN Some(FALSE)
         ELSE IF option \in enabled THEN Some(TRUE)
         ELSE None
    ELSE Some(option \in enabled)

\* the conjunct test with the negation flag forgotten
ConjunctFailsNoNegation(negate, contains) == ~contains

\* (negate && contains) || (!negate && !contains)
ConjunctFails(negate, contains) == (negate /\ contains) \/ (~negate /\ ~contains)

\* the `for option in options` loop, from slice i on, with the running result
RECURSIVE EvalOptions(_, _, _)
EvalOptions(options, i, option_enabled) ==
    IF i > Len(options) THEN option_enabled
    ELSE LET option == options[i]
             negate == StartsWith(option, b_bang)
             trimmed_option == IF negate THEN Tail(option) ELSE option
             contains == get_status(trimmed_option)
         IN  IF contains = None
             THEN EvalOptions(options, i + 1, option_enabled)
             ELSE IF ConjunctFails(negate, contains[1])
             THEN "No"
             ELSE EvalOptions(options, i + 1, "Yes")

\* the option directive's expression to its tri-state
EvalOption(option) ==
    EvalOptions(SplitCollect(slice_split(option, b_and)), 1, "Ignore")

\* What one iteration of `for line in lines` does with `line` in Segment `seg`:
\*   panic  - the iteration aborts (index or range out of bounds, usize underflow)
\*   state  - the Segment after it
\*   out    - the bytes pushed before the line ending
\*   kind   - which path was taken; expr - the option expression evaluated;
\*   active - currently_active, when it was computed ("yes", "no", "-")
\*   warn   - the warnings printed with eprintln!, in order
Iter(panic, seg, out, kind, expr, active) ==
    [panic |-> panic, state |-> seg, out |-> out, kind |-> kind,
     expr |-> expr, active |-> active, warn |-> <<>>]

\* the iteration r, having printed the warnings w
Warned(r, w) == [r EXCEPT !.warn = w]

\* the texts of the warnings
w_no_replacement == "Found a section with no replacement!"
w_incompatible == "End comment is not compatible with sections for now."
w_not_present == "Common string of section not present! Ignoring line."

Abort(seg, kind) == Iter(TRUE, seg, <<>>, kind, <<>>, "-")

\* a section directive that prints nothing
SectionWarningsSilent(sec_str) == <<>>

\* lines 141-143 and 146-147: the warnings of a section directive
SectionWarnings(sec_str) ==
    (IF sec_str = <<>> THEN <<w_no_replacement>> ELSE <<>>)
        \o (IF end_comment # None THEN <<w_incompatible>> ELSE <<>>)

\* a section directive that opens its region whatever the closing marker
SectionSegmentAlways(sec_str) == SegSection(sec_str)

\* lines 145-149: Section(sec_str), forced back to None when a closing marker is
\* configured
SectionSegment(sec_str) == IF end_comment # None THEN SegNone ELSE SegSection(sec_str)

\* lines 119-174: the directive arm
DirectiveArm(seg, line) ==
    LET line_trimmed == trim(line)
        start == Len(comment) + 1 + 5 + 1
        rest == SliceFrom(line_trimmed, start)
    IN  IF end_comment # None /\ start + 4 > Len(line_trimmed)
        THEN Abort(seg, "directive")              \* &line_trimmed[start..start + 4]
        ELSE
        LET is_end ==
                IF end_comment = None THEN rest = b_end
                ELSE /\ Slice(line_trimmed, start, start + 4) = b_end_sp
                     /\ SliceFrom(line_trimmed, start + 4) = end_comment[1]
        IN  IF is_end THEN Iter(FALSE, SegNone, line, "end", <<>>, "-")
            ELSE IF StartsWith(rest, b_section)
            THEN LET trimmed_start == first_non_whitespace(line)
                     sec_str == SliceFrom(line, trimmed_start + start + 8)
                 IN  Warned(Iter(FALSE, SectionSegment(sec_str), line, "section",
                                 sec_str, "-"),
                            SectionWarnings(sec_str))
            ELSE IF StartsWith(rest, b_option)
            THEN LET ostart == start + 7
                     end == IF end_comment # None
                            THEN Len(line_trimmed) - Len(end_comment[1]) - 1
                            ELSE Len(line_trimmed)
                 IN  IF end < ostart
                     THEN Abort(seg, "directive") \* &line_trimmed[start..end]
                     ELSE LET option == Slice(line_trimmed, ostart, end)
                          IN  Iter(FALSE, SegOption(EvalOption(option)), line,
                                   "option", option, "-")
            ELSE Iter(FALSE, seg, line, "unrecognised", <<>>, "-")

\* a deactivation that puts the marker in front of the section text and keeps the text
SectionDeactivateKeepText(line, start, seg_str) ==
    Slice(line, 0, start) \o comment \o <<32>> \o SliceFrom(line, start)

\* lines 196-199: the section text becomes `<comment> `
SectionDeactivate(line, start, seg_str) ==
    Slice(line, 0, start) \o comment \o <<32>> \o SliceFrom(line, start + Len(seg_str))

\* an activation that puts the section text in front of the marker
SectionActivateKeepMarker(line, start, seg_str) ==
    Slice(line, 0, start) \o seg_str \o SliceFrom(line, start)

\* lines 206-208: the leading `<comment> ` becomes the section text
SectionActivate(line, start, seg_str) ==
    Slice(line, 0, start) \o seg_str \o SliceFrom(line, start + Len(comment) + 1)

\* lines 177-213: a non-blank line in Segment::Section(seg_str)
SectionArm(seg, line) ==
    LET seg_str == seg.str
        lastid == get_last(line, comment)
        activate == IF lastid = None THEN Some(FALSE) ELSE get_status(lastid[1])
        start == first_non_whitespace(line)
        inactive == /\ StartsWith(SliceFrom(line, start), comment)
                    /\ start + Len(comment) < Len(line)
                    /\ line[start + Len(comment) + 1] = 32
        act == IF inactive THEN "no" ELSE "yes"
    IN  IF end_comment # None THEN Iter(FALSE, seg, line, "data", <<>>, "-")
        ELSE IF activate = None THEN Iter(FALSE, seg, line, "data", <<>>, "-")
        ELSE IF (~inactive) = activate[1] THEN Iter(FALSE, seg, line, "data", <<>>, act)
        ELSE IF ~activate[1]
        THEN IF StartsWith(SliceFrom(line, start), seg_str)
             THEN Iter(FALSE, seg, SectionDeactivate(line, start, seg_str),
                       "data", <<>>, act)
             ELSE Warned(Iter(FALSE, seg, line, "data", <<>>, act), <<w_not_present>>)
        ELSE Iter(FALSE, seg, SectionActivate(line, start, seg_str), "data", <<>>, act)

\* lines 230-237: `<comment> ` goes in after the leading whitespace, ` <end_comment>`
\* at the end
CommentOut(line, start) ==
    Slice(line, 0, start) \o comment \o <<32>> \o SliceFrom(line, start)
        \o (IF end_comment # None THEN <<32>> \o end_comment[1] ELSE <<>>)

\* an activation that removes the marker and leaves its space
UncommentKeepSpace(line, start) ==
    Slice(line, 0, start) \o SliceFrom(line, start + Len(comment))

\* lines 242-246: without a closing marker the leading `<comment> ` goes
Uncomment(line, start) ==
    Slice(line, 0, start) \o SliceFrom(line, start + Len(comment) + 1)

\* lines 247-254: with a closing marker the bytes from..to are kept, then the
\* trailing whitespace
UncommentBlock(line, start, from, to, end) ==
    Slice(line, 0, start) \o Slice(line, from, to) \o SliceFrom(line, end)

\* lines 214-260: a non-blank line in Segment::Option(enabled)
OptionArm(seg, line) ==
    LET start == first_non_whitespace(line)
        marked == StartsWith(SliceFrom(line, start), comment)
    IN  IF marked /\ start + Len(comment) >= Len(line)
        THEN Abort(seg, "data")                   \* line[start + comment.len()]
        ELSE
        LET inactive == marked /\ line[start + Len(comment) + 1] = 32
            act == IF inactive THEN "no" ELSE "yes"
        IN  IF seg.opt = "Ignore" THEN Iter(FALSE, seg, line, "data", <<>>, act)
            ELSE IF seg.opt = "Yes" /\ ~inactive THEN Iter(FALSE, seg, line, "data", <<>>, act)
            ELSE IF seg.opt = "No" /\ inactive THEN Iter(FALSE, seg, line, "data", <<>>, act)
            ELSE IF seg.opt = "No"
            THEN Iter(FALSE, seg, CommentOut(line, start), "data", <<>>, act)
            ELSE IF end_comment = None
            THEN Iter(FALSE, seg, Uncomment(line, start), "data", <<>>, act)
            ELSE LET end == last_non_whitespace(line)
                     from == start + Len(comment) + 1
                     to == end - Len(end_comment[1]) - 1
                 IN  IF to < from
                     THEN Abort(seg, "data")      \* &line[from..end - end_comment.len() - 1]
                     ELSE Iter(FALSE, seg, UncommentBlock(line, start, from, to, end),
                               "data", <<>>, act)

\* lines 116-269: the body of `for line in lines`
LoopBody(seg, line) ==
    LET line_trimmed == trim(line)
    IN  IF /\ Len(line_trimmed) >= Len(comment) + 1 + 5 + 1
           /\ StartsWith(line_trimmed, comment)
           /\ StartsWith(SliceFrom(line_trimmed, Len(comment)), b_CORPL)
        THEN DirectiveArm(seg, line)
        ELSE IF line_trimmed = <<>> THEN Iter(FALSE, seg, line, "blank", <<>>, "-")
        ELSE IF seg.tag = "Section" THEN SectionArm(seg, line)
        ELSE IF seg.tag = "Option" THEN OptionArm(seg, line)
        ELSE Iter(FALSE, seg, line, "data", <<>>, "-")

\* the length guard left out
TokenFitsAlways(first_line) == TRUE

\* lines 92-98: no bound, or the first whitespace-delimited token is within it
TokenFits(first_line) ==
    \/ max_comment_len = None
    \/ Len(FirstField(first_line, WhitespaceBytes)) <= max_comment_len[1]

\* a choice that lets the caller's marker override the conventional one
MarkerChoiceCallerFirst(common, given) == IF given # None THEN given ELSE common

\* line 84: get_common_comments(&config).or_else(|| comment.as_ref().map(Comment::open))
MarkerChoice(common, given) == IF common # None THEN common ELSE given

\* lines 83-111: the opening marker: [kind |-> "ok", comment], "exit" with the
\* diagnostic, or "panic" (peek() runs Lines::next)
ResolveComment(bytes) ==
    LET common == get_common_comments(bytes)
        given == IF comment_arg = None THEN None ELSE Some(comment_arg[1].open)
        first == MarkerChoice(common, given)
        peek == LinesNext(bytes, 0)
    IN  IF first # None THEN [kind |-> "ok", comment |-> first[1], diag |-> ""]
        ELSE IF peek.kind = "panic" THEN [kind |-> "panic", comment |-> <<>>, diag |-> ""]
        ELSE IF peek.kind = "none"
        THEN [kind |-> "exit", comment |-> <<>>, diag |-> "File too short"]
        ELSE IF TokenFits(peek.line)
        THEN [kind |-> "ok", comment |-> FirstField(peek.line, SpaceByte), diag |-> ""]
        ELSE [kind |-> "exit", comment |-> <<>>, diag |-> "Failed to get comment string"]

\* dir is the kind of the latest recognised directive of the running call
NoLast == [valid |-> FALSE, line |-> <<>>, seg |-> SegNone, panic |-> FALSE,
           out |-> <<>>, kind |-> "-", expr |-> <<>>, active |-> "-",
           warn |-> <<>>, dir |-> "-"]

\* a call that starts in the Segment the previous call ended in
InitialSegmentCarried(previous) == previous

\* line 113: let mut state = Segment::None
InitialSegment(previous) == SegNone

\* a write that leaves the file at its old length
WrittenNoTruncate(old, buffer) ==
    buffer \o (IF Len(old) > Len(buffer) THEN SliceFrom(old, Len(buffer)) ELSE <<>>)

\* lines 270-281: set_len(output.len()), seek(Start(0)), write_all(&output)
Written(old, buffer) == buffer

\* lines 62-113: open, read, line ending, marker resolution
Begin ==
    /\ pc = "start"
    /\ LET r == ResolveComment(file)
       IN  /\ config' = file
           /\ line_ending' = get_line_ending(file)
           /\ end_comment' = IF comment_arg = None THEN None ELSE comment_arg[1].close
           /\ comment' = r.comment
           /\ diag' = r.diag
           /\ pc' = IF r.kind = "ok" THEN "scan" ELSE r.kind
    /\ current_pos' = 0
    /\ state' = InitialSegment(state)
    /\ output' = <<>>
    /\ last' = NoLast
    /\ prev_file' = file
    /\ UNCHANGED <<file, pf_params, run, mf_vars, ss_vars>>

\* lines 116-269: one iteration of the scan
ScanLine ==
    /\ pc = "scan"
    /\ LET n == LinesNext(config, current_pos)
       IN  /\ n.kind # "none"
           /\ IF n.kind = "panic"
              THEN /\ pc' = "panic"
                   /\ last' = NoLast
                   /\ UNCHANGED <<current_pos, state, output>>
              ELSE LET r == LoopBody(state, n.line)
                   IN  /\ last' = [valid |-> TRUE, line |-> n.line, seg |-> state,
                                   panic |-> r.panic, out |-> r.out, kind |-> r.kind,
                                   expr |-> r.expr, active |-> r.active,
                                   warn |-> r.warn,
                                   dir |-> IF r.kind \in {"end", "section", "option"}
                                           THEN r.kind ELSE last.dir]
                       /\ current_pos' = n.pos
                       /\ IF r.panic
                          THEN pc' = "panic" /\ UNCHANGED <<state, output>>
                          ELSE /\ pc' = "scan"
                               /\ state' = r.state
                               /\ output' = output \o r.out \o line_ending
    /\ UNCHANGED <<file, pf_params, run, config, line_ending, comment, end_comment,
                   diag, prev_file, mf_vars, ss_vars>>

\* lines 270-281: set_len, seek, write_all
WriteBack ==
    /\ pc = "scan"
    /\ LinesNext(config, current_pos).kind = "none"
    /\ file' = Written(file, output)
    /\ pc' = "done"
    /\ UNCHANGED <<pf_params, run, config, line_ending, comment, end_comment,
                   current_pos, state, output, diag, last, prev_file, mf_vars, ss_vars>>

\* main.rs lines 112-124 run process_file once per path; here the path processed
\* last is processed again in succession
Rerun ==
    /\ pc \in {"done", "exit", "panic"}
    /\ remaining = <<>>
    /\ run < MaxRuns
    /\ run' = run + 1
    /\ pc' = "start"
    /\ UNCHANGED <<file, pf_params, config, line_ending, comment, end_comment,
                   current_pos, state, output, diag, last, prev_file, mf_vars, ss_vars>>

\* main.rs lines 113-124: process_file returned, the loop goes on to the next
\* path. A call that ran into print_exit (common/src/lib.rs:19-22,
\* std::process::exit) or panicked does not return.
NextFile ==
    /\ pc = "done"
    /\ remaining # <<>>
    /\ file' = Head(remaining)
    /\ remaining' = Tail(remaining)
    /\ log' = Append(log, [input |-> prev_file, seg |-> state])
    /\ pc' = "start"
    /\ UNCHANGED <<pf_params, run, config, line_ending, comment, end_comment,
                   current_pos, state, output, diag, last, prev_file, ss_vars>>

\* SliceSplit::next called once more on the iterator, also after it returned
\* None; ss_done records that some call returned None
SplitCall ==
    /\ Len(yielded) < MaxYield
    /\ LET r == SliceSplitNext(ss)
       IN  /\ ss' = r.it
           /\ IF r.item = None
              THEN ss_done' = TRUE /\ UNCHANGED yielded
              ELSE yielded' = Append(yielded, r.item[1]) /\ UNCHANGED ss_done
    /\ UNCHANGED pf_vars

---------------------------------------------------------------------------
\* The inputs: files, markers, identifier sets

\* every sequence over S of length lo..hi
SeqsOf(S, lo, hi) == UNION {[1..n -> S] : n \in lo..hi}

\* a file: the lines, each followed by eol, the last one only if `terminated`
RECURSIVE MkFile(_, _, _)
MkFile(ls, eol, terminated) ==
    IF ls = <<>> THEN <<>>
    ELSE IF Len(ls) = 1 THEN ls[1] \o (IF terminated THEN eol ELSE <<>>)
    ELSE ls[1] \o eol \o MkFile(Tail(ls), eol, terminated)

FilesOver(menu) ==
    {MkFile(ls, eol, t) : ls \in SeqsOf(menu, 1, MaxLines), eol \in {b_lf, b_crlf},
                          t \in BOOLEAN}

Directive(marker, verb, arg) == marker \o b_CORPL \o verb \o arg

foo == <<102,111,111>>                                       \* "foo"
bar == <<98,97,114>>                                         \* "bar"
b_open_block == <<47,42>>                                    \* "/*"
b_close_block == <<42,47>>                                   \* "*/"
b_percent == <<37>>                                          \* "%"
l_secret == <<115,101,99,114,101,116,61,49>>                 \* "secret=1"
l_c_secret == <<35,32,115,101,99,114,101,116,61,49>>         \* "# secret=1"
l_cc_x == <<35,32,35,32,120>>                                \* "# # x"
l_ws_c_x == <<32,32,35,32,120>>                              \* "  # x"
l_x == <<120>>                                               \* "x"
l_c_x == <<35,32,120>>                                       \* "# x"
l_blank == <<32,32>>                                         \* "  "
e_foo == <<102,111,111>>                                     \* "foo"
e_nfoo_bar == <<33,102,111,111,32,38,38,32,98,97,114>>       \* "!foo && bar"
l_port == <<112,111,114,116,61,56,48>>                       \* "port=80"
l_s_port == <<47,47,32,112,111,114,116,61,56,48>>            \* "// port=80"
l_port_foo == <<112,111,114,116,61,56,48,32,47,47,32,102,111,111>> \* "port=80 // foo"
l_s_alt_bar == <<47,47,32,61,56,49,32,47,47,32,98,97,114>>   \* "// =81 // bar"
l_other == <<111,116,104,101,114,61,49>>                     \* "other=1"
l_b_x == <<47,42,32,120,32,42,47>>                           \* "/* x */"
l_b_x_open == <<47,42,32,120>>                               \* "/* x"
l_config_semi == <<59,59,99,111,110,102,105,103,59,59>>      \* ";;config;;"
l_config_pct == <<37,37,99,111,110,102,105,103,37,37>>       \* "%%config%%"
l_p_x == <<37,32,120>>                                       \* "% x"
in_scenario_e == <<97,32,38,38,32,98,32,38,38,32,33,99>>     \* "a && b && !c"

\* files that start with the conventional marker "#" and use option regions
HashMenu ==
    {Directive(b_hash, b_option, e_foo), Directive(b_hash, b_option, e_nfoo_bar),
     Directive(b_hash, b_end, <<>>), l_c_secret, l_secret, l_cc_x, l_ws_c_x,
     b_hash, l_blank}
ScenarioA ==
    MkFile(<<Directive(b_hash, b_option, e_foo), l_c_secret,
             Directive(b_hash, b_end, <<>>)>>, b_lf, TRUE)
\* a `<marker> CORPL ` line with an unknown verb, alone and inside regions; one
\* directive after another with no `end` in between
l_h_verb == Directive(b_hash, l_x, <<>>)                         \* "# CORPL x"
HashExtraFiles ==
    {MkFile(ls, b_lf, TRUE) :
        ls \in {<<l_h_verb, l_c_secret>>,
                <<Directive(b_hash, b_option, e_foo), l_h_verb, l_c_secret>>,
                <<Directive(b_hash, b_option, e_foo), Directive(b_hash, b_section, l_secret),
                  l_secret, Directive(b_hash, b_end, <<>>), l_secret>>,
                <<Directive(b_hash, b_section, l_secret), Directive(b_hash, b_option, e_foo),
                  l_c_secret>>}}
\* files that mix line terminators: LF then CRLF, CRLF then LF, a lone CR
MixedLfFirst == l_c_x \o b_lf \o l_x \o b_crlf \o l_secret \o b_lf
MixedCrlfFirst == l_c_x \o b_crlf \o l_x \o b_lf \o l_secret \o b_lf
MixedLoneCr == l_c_x \o <<13>> \o l_x \o b_lf \o l_x \o b_lf
MixedFiles == {MixedLfFirst, MixedCrlfFirst, MixedLoneCr}
HashFiles == FilesOver(HashMenu) \cup {ScenarioA} \cup HashExtraFiles \cup MixedFiles

\* option expressions: up to MaxConj possibly negated identifiers joined by " && "
Atoms == {foo, bar, b_bang \o foo, b_bang \o bar}
RECURSIVE JoinWith(_, _)
JoinWith(parts, sep) ==
    IF parts = <<>> THEN <<>>
    ELSE IF Len(parts) = 1 THEN parts[1]
    ELSE parts[1] \o sep \o JoinWith(Tail(parts), sep)
Exprs == {JoinWith(as, b_and) : as \in SeqsOf(Atoms, 1, MaxConj)}
ExprFiles ==
    {MkFile(<<Directive(b_hash, b_option, e), d>>, b_lf, TRUE) :
        e \in Exprs, d \in {l_x, l_c_x}}

\* files that start with the conventional marker "//" and use section regions
SlashMenu ==
    {Directive(b_slashes, b_section, l_port), Directive(b_slashes, b_end, <<>>),
     l_port, l_s_port, l_port_foo, l_s_alt_bar, l_other}
ScenarioB ==
    MkFile(<<Directive(b_slashes, b_section, l_port), l_port,
             Directive(b_slashes, b_end, <<>>)>>, b_lf, TRUE)
l_s_verb == Directive(b_slashes, l_x, <<>>)                      \* "// CORPL x"
SlashExtraFiles ==
    {MkFile(ls, b_lf, TRUE) :
        ls \in {<<Directive(b_slashes, b_section, l_port), l_s_verb, l_port>>,
                <<Directive(b_slashes, b_section, l_port), l_blank, l_port>>,
                <<Directive(b_slashes, b_section, <<>>), l_port>>,
                <<Directive(b_slashes, b_section, <<32>> \o l_port \o <<32>>), l_s_port>>,
                <<<<32>> \o Directive(b_slashes, b_section, l_port), l_port>>,
                <<Directive(b_slashes, b_section, l_port), l_blank \o l_port,
                  l_blank \o l_s_alt_bar>>,
                <<Directive(b_slashes, b_section, l_port), b_slashes,
                  b_slashes \o l_port>>}}
SlashFiles == FilesOver(SlashMenu) \cup {ScenarioB} \cup SlashExtraFiles

\* files in a block-comment language, processed with -c "/*" --closing-comment "*/"
BlockMenu ==
    {Directive(b_open_block, b_option, e_foo \o <<32>> \o b_close_block),
     Directive(b_open_block, b_end, <<32>> \o b_close_block),
     Directive(b_open_block, b_option, e_foo),
     l_b_x, l_b_x_open, l_x, b_open_block}
\* short and unknown `/* CORPL ` lines, and a section directive, with the closing
\* marker in use
l_b_verb == Directive(b_open_block, l_x, <<>>)                   \* "/* CORPL x"
l_b_verb_closed == Directive(b_open_block, l_x, <<32>> \o b_close_block)
l_b_option == Directive(b_open_block, b_option, e_foo \o <<32>> \o b_close_block)
BlockExtraFiles ==
    {MkFile(ls, b_lf, TRUE) :
        ls \in {<<Directive(b_open_block, b_end, <<>>)>>,
                <<l_b_option, l_b_verb>>,
                <<l_b_option, l_b_verb_closed, l_b_x>>,
                <<l_b_verb_closed, l_b_x>>,
                <<l_b_option,
                  Directive(b_open_block, b_section, l_x \o <<32>> \o b_close_block),
                  l_b_x>>}}
BlockFiles == FilesOver(BlockMenu) \cup BlockExtraFiles
\* files that start with the conventional marker "#", processed with the same
\* -c "/*" --closing-comment "*/"
l_c_x_close == <<35,32,120,32,42,47>>          \* "# x */"
HashBlockFiles ==
    {MkFile(<<Directive(b_hash, b_option, e_foo \o <<32>> \o b_close_block), d>>,
            b_lf, TRUE) : d \in {l_x, l_c_x_close}}
BlockComment == Some([open |-> b_open_block, close |-> Some(b_close_block)])

\* files that start with no conventional marker
OddMenu ==
    {l_config_pct, b_percent, Directive(b_percent, b_option, e_foo), l_p_x, l_x}
\* a first line whose marker is followed by a tab
l_p_tab_config == <<37,9,99,111,110,102,105,103>>                \* "%\tconfig"
OddFiles ==
    FilesOver(OddMenu) \cup FilesOver({l_config_semi}) \cup {<<>>}
        \cup {MkFile(<<l_p_tab_config, l_p_x>>, b_lf, TRUE)}
PercentComment == Some([open |-> b_percent, close |-> None])

Start(f, ca, en, dis, k, mx) ==
    /\ file = f
    /\ comment_arg = ca
    /\ enabled = en
    /\ disabled = dis
    /\ keep = k
    /\ max_comment_len = mx
    /\ pc = "start"
    /\ run = 1
    /\ config = <<>>
    /\ line_ending = b_lf
    /\ comment = <<>>
    /\ end_comment = None
    /\ current_pos = 0
    /\ state = SegNone
    /\ output = <<>>
    /\ diag = ""
    /\ last = NoLast
    /\ prev_file = f
    /\ log = <<>>

SplitIdle ==
    /\ ss = slice_split(<<>>, b_and)
    /\ yielded = <<>>
    /\ ss_done = FALSE

\* main.rs line 106-110: without --long-comment the bound is 4
DefaultMaxLen == Some(4)

InitHash ==
    \E f \in HashFiles, en \in SUBSET {foo, bar}, dis \in {{}, {foo}}, k \in BOOLEAN :
        Start(f, None, en, dis, k, DefaultMaxLen)
InitExpr ==
    \E f \in ExprFiles, en \in SUBSET {foo, bar}, dis \in SUBSET {foo, bar},
       k \in BOOLEAN :
        Start(f, None, en, dis, k, DefaultMaxLen)
InitSlash ==
    \E f \in SlashFiles, en \in SUBSET {foo, bar}, dis \in {{}, {foo}}, k \in BOOLEAN :
        Start(f, None, en, dis, k, DefaultMaxLen)
InitBlock ==
    \E f \in BlockFiles \cup HashBlockFiles, en \in SUBSET {foo}, dis \in {{}, {foo}}, k \in BOOLEAN :
        Start(f, BlockComment, en, dis, k, DefaultMaxLen)
InitOdd ==
    \E f \in OddFiles, ca \in {None, PercentComment}, en \in SUBSET {foo},
       k \in BOOLEAN, mx \in {None, DefaultMaxLen} :
        Start(f, ca, en, {}, k, mx)

\* one invocation on two paths: the first file is empty, or leaves a region open
MultiFirst ==
    {<<>>,
     MkFile(<<Directive(b_hash, b_option, e_foo)>>, b_lf, TRUE),
     MkFile(<<Directive(b_slashes, b_section, l_port)>>, b_lf, TRUE)}
MultiSecond ==
    {MkFile(<<l_c_secret>>, b_lf, TRUE), MkFile(<<b_hash, l_secret>>, b_lf, TRUE),
     MkFile(<<l_s_port>>, b_lf, TRUE)}
InitMulti ==
    \E f \in MultiFirst, g \in MultiSecond, en \in SUBSET {foo}, k \in BOOLEAN :
        /\ Start(f, None, en, {}, k, DefaultMaxLen)
        /\ remaining = <<g>>

Init ==
    /\ \/ (InitHash \/ InitExpr \/ InitSlash \/ InitBlock \/ InitOdd) /\ remaining = <<>>
       \/ InitMulti
    /\ SplitIdle

Next == Begin \/ ScanLine \/ WriteBack \/ Rerun \/ NextFile

Spec == Init /\ [][Next]_vars

\* slice_split on its own: every input over a small alphabet, every separator
SplitAlphabet == {97, 44}                      \* "a", ","
SplitInputs == SeqsOf(SplitAlphabet, 0, MaxSliceLen) \cup {in_scenario_e}
SplitSeparators == SeqsOf(SplitAlphabet, 1, MaxSepLen) \cup {b_and}

SplitInit ==
    /\ Start(<<>>, None, {}, {}, FALSE, DefaultMaxLen)
    /\ remaining = <<>>
    /\ \E slice \in SplitInputs, predicate \in SplitSeparators :
        ss = slice_split(slice, predicate)
    /\ yielded = <<>>
    /\ ss_done = FALSE

SplitNext == SplitCall

SplitSpec == SplitInit /\ [][SplitNext]_vars

\* slice_split with every separator, the zero-length one included
SplitAnySeparators == SeqsOf(SplitAlphabet, 0, MaxSepLen) \cup {b_and}

SplitAnyInit ==
    /\ Start(<<>>, None, {}, {}, FALSE, DefaultMaxLen)
    /\ remaining = <<>>
    /\ \E slice \in SplitInputs, predicate \in SplitAnySeparators :
        ss = slice_split(slice, predicate)
    /\ yielded = <<>>
    /\ ss_done = FALSE

SplitAnySpec == SplitAnyInit /\ [][SplitNext]_vars

---------------------------------------------------------------------------
\* Vocabulary of the properties, stated apart from the operators above

\* the leading whitespace of a line and what follows it
LeadLen(line) ==
    IF \A i \in 1..Len(line) : is_whitespace(line[i]) THEN Len(line)
    ELSE (CHOOSE i \in 1..Len(line) :
            ~is_whitespace(line[i]) /\ \A j \in 1..(i - 1) : is_whitespace(line[j])) - 1
Lead(line) == SubSeq(line, 1, LeadLen(line))
Body(line) == SubSeq(line, LeadLen(line) + 1, Len(line))
\* s without its first n elements
Drop(s, n) == SubSeq(s, n + 1, Len(s))

\* "currently inactive": after leading whitespace, the marker and then a space
Inactive(line) == StartsWith(Body(line), comment \o <<32>>)
\* the line holds `<marker><space>` somewhere
HasMarkerSpace(line) ==
    \E p \in 1..Len(line) : StartsWith(Drop(line, p - 1), comment \o <<32>>)

\* the status of an identifier
Known(x) == ~keep \/ x \in enabled \/ x \in disabled
StatusEnabled(x) == x \in enabled /\ ~(keep /\ x \in disabled)

\* the reference split: the slices between successive leftmost non-overlapping
\* occurrences of sep (sep non-empty)
RECURSIVE RefSplit(_, _)
RefSplit(s, sep) ==
    LET occ == {p \in 1..(Len(s) - Len(sep) + 1) : SubSeq(s, p, p + Len(sep) - 1) = sep}
    IN  IF occ = {} THEN <<s>>
        ELSE LET p == CHOOSE q \in occ : \A r \in occ : q <= r
             IN  <<SubSeq(s, 1, p - 1)>> \o RefSplit(Drop(s, p + Len(sep) - 1), sep)

\* a conjunct of an option expression: its identifier, and whether it is satisfied
Negated(c) == Len(c) >= 1 /\ c[1] = 33
Ident(c) == IF Negated(c) THEN Tail(c) ELSE c
Satisfied(c) == IF Negated(c) THEN ~StatusEnabled(Ident(c)) ELSE StatusEnabled(Ident(c))
Conjuncts(expr) == RefSplit(expr, b_and)
AllKnown(expr) == \A i \in 1..Len(Conjuncts(expr)) : Known(Ident(Conjuncts(expr)[i]))
NoneKnown(expr) == \A i \in 1..Len(Conjuncts(expr)) : ~Known(Ident(Conjuncts(expr)[i]))

\* the first line of a file, with or without a terminator after it
FirstLineIs(f, l) ==
    StartsWith(f, l) /\ (Len(f) = Len(l) \/ f[Len(l) + 1] \in {10, 13})
FirstLineTerminated(f, l) ==
    StartsWith(f, l) /\ Len(f) > Len(l) /\ f[Len(l) + 1] \in {10, 13}

\* line-terminator styles of a byte sequence
OnlyLF(f) == \A i \in 1..Len(f) : f[i] # 13
OnlyCRLF(f) ==
    /\ \A i \in 1..Len(f) : f[i] = 13 => (i < Len(f) /\ f[i + 1] = 10)
    /\ \A i \in 1..Len(f) : f[i] = 10 => (i > 1 /\ f[i - 1] = 13)
    /\ \E i \in 1..Len(f) : f[i] = 10
EndsWith(f, e) == Len(e) <= Len(f) /\ SubSeq(f, Len(f) - Len(e) + 1, Len(f)) = e
\* every line of f ends with the terminator e and no other terminator occurs
TerminatedBy(f, e) ==
    /\ f = <<>> \/ EndsWith(f, e)
    /\ IF e = b_lf THEN OnlyLF(f) ELSE (f = <<>> \/ OnlyCRLF(f))

\* the scan aborted inside Lines::next (not inside the loop body)
ScannerPanic == pc = "panic" /\ ~last.panic

l_s_blank == <<47,47,32>>                      \* "// "
ScenarioA_Out ==
    MkFile(<<Directive(b_hash, b_option, e_foo), l_secret,
             Directive(b_hash, b_end, <<>>)>>, b_lf, TRUE)
ScenarioB_Claimed ==
    MkFile(<<Directive(b_slashes, b_section, l_port), l_s_port,
             Directive(b_slashes, b_end, <<>>)>>, b_lf, TRUE)
ScenarioB_Out ==
    MkFile(<<Directive(b_slashes, b_section, l_port), l_s_blank,
             Directive(b_slashes, b_end, <<>>)>>, b_lf, TRUE)

---------------------------------------------------------------------------
\* C1: running process_file a second time in succession, with the same marker,
\* sets and keep flag, leaves the file byte-identical to what the first run wrote.
C1_Idempotent == (run >= 2 /\ pc = "done") => file = prev_file

\* C2: an option expression whose identifiers all have a known status evaluates to
\* Option(No) iff some conjunct is unsatisfied, to Option(Yes) iff every conjunct is
\* satisfied (x satisfied iff enabled, !x satisfied iff x disabled), never to Ignore.
C2_OptionEvaluation ==
    (last.valid /\ ~last.panic /\ last.kind = "option" /\ AllKnown(last.expr)) =>
        LET cs == Conjuncts(last.expr)
        IN  /\ state.tag = "Option"
            /\ state.opt = "No" <=> \E i \in 1..Len(cs) : ~Satisfied(cs[i])
            /\ state.opt = "Yes" <=> \A i \in 1..Len(cs) : Satisfied(cs[i])
            /\ state.opt # "Ignore"

\* keep is on, the expression has a plain and a negated conjunct, both known, and
\* it evaluated to Yes
C2_Witness ==
    /\ last.valid /\ last.kind = "option" /\ keep /\ AllKnown(last.expr)
    /\ Len(Conjuncts(last.expr)) = 2
    /\ ~Negated(Conjuncts(last.expr)[1]) /\ Negated(Conjuncts(last.expr)[2])
    /\ state.opt = "Yes"

\* C3: when every identifier of an option expression is unknown the Segment becomes
\* Option(Ignore), and every data line scanned in that Segment is emitted with
\* exactly its input bytes.
C3_IgnoreFrame ==
    /\ (last.valid /\ ~last.panic /\ last.kind = "option" /\ NoneKnown(last.expr)) =>
            state = SegOption("Ignore")
    /\ (last.valid /\ last.kind \in {"data", "blank"} /\ last.seg = SegOption("Ignore")) =>
            (~last.panic /\ last.out = last.line)

\* C4: for a file whose terminators are all "\n" or all "\r\n" (the last line may
\* lack one) the line scan completes, and every line of the output ends with that
\* terminator.
C4_LineEndings ==
    (OnlyLF(prev_file) \/ OnlyCRLF(prev_file)) =>
        /\ ~ScannerPanic
        /\ pc = "done" =>
              TerminatedBy(output, IF OnlyCRLF(prev_file) THEN b_crlf ELSE b_lf)

\* C5 as stated: in an Option(Yes) region an inactive data line is emitted without
\* its marker and one space, the leading whitespace and the rest of the line kept
\* (stated of the lines the scan emits).
C5_Original ==
    (last.valid /\ ~last.panic /\ last.kind = "data" /\ last.seg = SegOption("Yes")
        /\ Inactive(last.line)) =>
        last.out = Lead(last.line) \o Drop(Body(last.line), Len(comment) + 1)

\* C5 amended: when no closing marker is configured, in an Option(Yes) region an
\* inactive data line is emitted without exactly its marker and one space (leading
\* whitespace and the rest kept), directive lines are emitted unchanged, and the
\* example file yields "secret=1" as its middle line.
C5_Activation ==
    /\ (end_comment = None /\ last.valid /\ last.kind = "data"
            /\ last.seg = SegOption("Yes") /\ Inactive(last.line)) =>
            /\ ~last.panic
            /\ last.out = Lead(last.line) \o Drop(Body(last.line), Len(comment) + 1)
    /\ (end_comment = None /\ last.valid /\ last.seg = SegOption("Yes")
            /\ last.kind \in {"end", "section", "option"}) =>
            (~last.panic /\ last.out = last.line)
    /\ (prev_file = ScenarioA /\ comment_arg = None /\ enabled = {foo} /\ ~keep
            /\ pc = "done") =>
            file = ScenarioA_Out

\* the example: "# secret=1" under "option foo" with foo enabled came out as "secret=1"
C5_Witness ==
    /\ prev_file = ScenarioA /\ enabled = {foo} /\ ~keep /\ run = 1
    /\ last.valid /\ last.seg = SegOption("Yes") /\ last.line = l_c_secret
    /\ last.out = l_secret

\* C6 as stated: the example file's middle line comes out as "// port=80", and an
\* active Section line without a trailing identifier comes out commented.
C6_Original ==
    /\ (prev_file = ScenarioB /\ enabled = {} /\ ~keep /\ run = 1 /\ pc = "done") =>
            file = ScenarioB_Claimed
    /\ (last.valid /\ last.kind = "data" /\ last.seg.tag = "Section"
            /\ ~HasMarkerSpace(last.line)) =>
            (~last.panic /\ Inactive(last.out))

\* C6 amended: the example file's middle line comes out as "// " (the section text
\* is replaced by the marker and a space); an active Section line without a trailing
\* identifier that begins, after leading whitespace, with the section text has that
\* text replaced by marker and space, and one that does not is emitted unchanged.
C6_SectionDeactivation ==
    /\ (prev_file = ScenarioB /\ enabled = {} /\ ~keep /\ run = 1 /\ pc = "done") =>
            file = ScenarioB_Out
    /\ (last.valid /\ last.kind = "data" /\ last.seg.tag = "Section"
            /\ ~HasMarkerSpace(last.line)) =>
            /\ ~last.panic
            /\ last.out =
                 IF StartsWith(Body(last.line), last.seg.str)
                 THEN Lead(last.line) \o comment \o <<32>>
                        \o Drop(Body(last.line), Len(last.seg.str))
                 ELSE last.line

\* the example: "port=80" in Section("port=80") came out as "// "
C6_Witness ==
    /\ prev_file = ScenarioB /\ enabled = {} /\ ~keep /\ run = 1
    /\ last.valid /\ last.seg = SegSection(l_port) /\ last.line = l_port
    /\ last.out = l_s_blank

\* C7 as stated: a file whose first line is ";;config;;", no marker supplied, bound 4:
\* process_file fails with the diagnostic instead of processing the file.
C7_Original ==
    (FirstLineIs(prev_file, l_config_semi) /\ comment_arg = None
        /\ max_comment_len = Some(4) /\ pc # "start") =>
        (pc = "exit" /\ diag # "")

\* C7 amended: a file whose first line is "%%config%%" followed by a terminator (a
\* first token longer than the bound that starts with none of "#", "//", ";"), no
\* marker supplied, bound 4: process_file fails with the failed-to-get-comment-string
\* diagnostic and leaves the file alone; a first line ";;config;;" resolves to the
\* conventional marker ";" and is not refused.
C7_MarkerTooLong ==
    /\ (FirstLineTerminated(prev_file, l_config_pct) /\ comment_arg = None
            /\ max_comment_len = Some(4) /\ pc # "start") =>
            (pc = "exit" /\ diag = "Failed to get comment string" /\ file = prev_file)
    /\ (FirstLineIs(prev_file, l_config_semi) /\ pc # "start") =>
            (pc # "exit" /\ comment = b_semi)

\* "%%config%%" with no marker and bound 4 was refused
C7_Witness ==
    /\ FirstLineTerminated(prev_file, l_config_pct) /\ comment_arg = None
    /\ max_comment_len = Some(4) /\ run = 1
    /\ pc = "exit" /\ diag = "Failed to get comment string"

C9_ReferenceSplit == ss_done => yielded = RefSplit(ss.slice, ss.predicate)

\* C10: joining the yielded slices with one separator between consecutive slices
\* gives back the input.
C10_RoundTrip == ss_done => JoinWith(yielded, ss.predicate) = ss.slice

\* "a && b && !c" split on " && " was exhausted after three slices
C10_Witness ==
    /\ ss_done /\ ss.slice = in_scenario_e /\ ss.predicate = b_and
    /\ Len(yielded) = 3

\* C11: slice_split is finite and cannot be restarted, for every finite input and
\* every matcher, the zero-length sub-sequence included: a call that yields a
\* slice moves the iterator on (a call that leaves it where it was yields the same
\* slice for ever), and once a call returned None no later call yields a slice.
C11_FiniteNonRestartable ==
    [][/\ yielded' # yielded => ss' # ss
       /\ ss_done => (ss_done' /\ yielded' = yielded)]_vars


\* the identifier that governs a data line of a Section region: what follows the
\* last `<marker><space>` of the line
Governing(line) == get_last(line, comment)

\* C12: with keep on, every data line whose governing identifiers are in neither
\* set is emitted with its input bytes, in Option regions (the expression evaluated
\* to Ignore) and in Section regions (the trailing identifier is unknown); with keep
\* off every identifier absent from the enabled set counts as disabled.
C12_KeepSemantics ==
    /\ (last.valid /\ keep /\ last.kind = "data" /\ last.seg = SegOption("Ignore")) =>
            (~last.panic /\ last.out = last.line)
    /\ (last.valid /\ keep /\ last.kind = "data" /\ last.seg.tag = "Section"
            /\ Governing(last.line) # None /\ ~Known(Governing(last.line)[1])) =>
            (~last.panic /\ last.out = last.line)
    /\ ~keep => \A x \in {foo, bar, l_x} \ enabled : get_status(x) = Some(FALSE)


\* the caller's opening and closing marker, as Options
GivenOpen == IF comment_arg = None THEN None ELSE Some(comment_arg[1].open)
GivenClose == IF comment_arg = None THEN None ELSE comment_arg[1].close

\* C13: the order of marker resolution: a conventional marker at the start of the
\* file is the opening marker even when the caller supplied another one, and the
\* caller's closing marker is still used; otherwise the caller's opening marker is
\* used; the first line's first token is the marker, or resolution fails, only when
\* neither applies.
C13_ResolutionOrder ==
    LET common == get_common_comments(config)
    IN  /\ pc \in {"scan", "done"} =>
            /\ common # None => (comment = common[1] /\ end_comment = GivenClose)
            /\ (common = None /\ GivenOpen # None) => comment = GivenOpen[1]
            /\ (common = None /\ GivenOpen = None) =>
                    FirstLineIs(config, comment) \/ StartsWith(config, comment \o <<32>>)
        /\ pc = "exit" => (common = None /\ GivenOpen = None)

\* "# CORPL option foo */" was read with -c "/*" --closing-comment "*/": the marker
\* is "#", the closing marker "*/"
C13_Witness ==
    /\ pc = "scan"
    /\ get_common_comments(config) = Some(b_hash)
    /\ GivenOpen = Some(b_open_block)
    /\ comment = b_hash
    /\ end_comment = Some(b_close_block)


\* C14: when process_file fails on a file and paths remain, the run goes on: the
\* loop of main proceeds to the next path, and the run ends only after the last one.
C14_ContinueAfterFailure == (pc = "exit" /\ remaining # <<>>) => ENABLED NextFile


\* the marker of the file that was read got resolved
MarkerResolved == ResolveComment(config).kind = "ok"

\* C15: once the comment marker is resolved, the line scan completes for every
\* file content and every configuration, with or without a closing marker: no
\* index out of range, no other abnormal termination.
C15_NoAbort == MarkerResolved => pc # "panic"

\* C16: an empty file with neither a conventional nor a caller-supplied marker
\* makes process_file fail; whenever marker resolution fails the file is as it was;
\* nothing is written before the scan is over, and after the write the file holds
\* exactly the output buffer.
C16_WriteAfterScan ==
    /\ (pc # "start" /\ config = <<>> /\ GivenOpen = None) =>
            (pc = "exit" /\ diag = "File too short")
    /\ pc = "exit" => (~MarkerResolved /\ file = prev_file)
    /\ pc \in {"scan", "panic"} => file = prev_file
    /\ pc = "done" => (file = output /\ LinesNext(config, current_pos).kind = "none")

\* "%%config%%" is longer than the bound of 4: the call failed and the file still
\* holds its bytes
C16_Witness ==
    /\ pc = "exit"
    /\ diag = "Failed to get comment string"
    /\ StartsWith(file, l_config_pct)
    /\ file = prev_file


\* C17: every line scanned while the Segment is None, every recognised directive
\* line in any Segment, and every line that is empty after trimming in any Segment
\* is emitted with exactly its input bytes followed by the line terminator.
C17_PassThrough ==
    (last.valid /\ (last.seg = SegNone
                        \/ last.kind \in {"end", "section", "option", "blank"})) =>
        /\ ~last.panic
        /\ last.out = last.line
        /\ EndsWith(output, last.line \o line_ending)


\* the text of a section directive line: what follows `<marker> CORPL section `
SectionText(line) == Drop(Body(line), Len(comment) + Len(b_CORPL) + Len(b_section))
\* the Segment is one of None, Section(text), Option(tri-state)
IsSegment(seg) ==
    \/ seg = SegNone
    \/ seg.tag = "Section" /\ seg = SegSection(seg.str)
    \/ seg.tag = "Option" /\ seg.opt \in {"Yes", "No", "Ignore"} /\ seg = SegOption(seg.opt)
\* a line that is not a recognised directive leaves the Segment as it was
SegmentKept ==
    (last.valid /\ last.kind \notin {"end", "section", "option"}) => state = last.seg

\* C18 as stated: the Segment is one of None, Section(text), Option(tri-state) and
\* is set by the most recent recognised directive alone: `end` sets None, `section`
\* sets Section, `option` sets Option, whatever the Segment was before.
C18_Original ==
    /\ IsSegment(state)
    /\ SegmentKept
    /\ (last.valid /\ ~last.panic /\ last.kind = "end") => state = SegNone
    /\ (last.valid /\ ~last.panic /\ last.kind = "section") =>
            state = SegSection(SectionText(last.line))
    /\ (last.valid /\ ~last.panic /\ last.kind = "option") => state.tag = "Option"

\* C18: the Segment is one of None, Section(text), Option(tri-state) and is set by
\* the most recent recognised directive alone, whatever the Segment was before:
\* `end` sets None, `option` sets Option, `section` sets Section when no closing
\* marker is configured and None when one is.
C18_Replacement ==
    /\ IsSegment(state)
    /\ SegmentKept
    /\ (last.valid /\ ~last.panic /\ last.kind = "end") => state = SegNone
    /\ (last.valid /\ ~last.panic /\ last.kind = "section") =>
            state = (IF end_comment = None THEN SegSection(SectionText(last.line))
                     ELSE SegNone)
    /\ (last.valid /\ ~last.panic /\ last.kind = "option") => state.tag = "Option"

\* "/* CORPL section x */" came in an Option region with the closing marker "*/"
\* configured: the Segment is None
C18_Witness ==
    /\ last.valid /\ ~last.panic /\ last.kind = "section"
    /\ last.seg.tag = "Option"
    /\ end_comment = Some(b_close_block)
    /\ state = SegNone


\* the scan of `bytes` from position pos in Segment seg with `out` emitted so far,
\* run to its end: the output buffer, or no result if the scan aborts
RECURSIVE ScanFrom(_, _, _, _)
ScanFrom(bytes, pos, seg, out) ==
    LET n == LinesNext(bytes, pos)
    IN  IF n.kind = "none" THEN Some(out)
        ELSE IF n.kind = "panic" THEN None
        ELSE LET r == LoopBody(seg, n.line)
             IN  IF r.panic THEN None
                 ELSE ScanFrom(bytes, n.pos, r.state, out \o r.out \o line_ending)
\* what a call that has this file alone to process writes
Alone(bytes) == ScanFrom(bytes, 0, SegNone, <<>>)

\* C19: each call of process_file starts in Segment None with an empty output
\* buffer and with the marker and the line ending resolved from its own file, so
\* what it writes is what it would write had no file been processed before.
C19_NoLeak ==
    /\ pc \in {"scan", "done"} =>
            /\ comment = ResolveComment(config).comment
            /\ line_ending = get_line_ending(config)
            /\ end_comment = GivenClose
    /\ (pc = "scan" /\ ~last.valid) =>
            (state = SegNone /\ output = <<>> /\ current_pos = 0 /\ config = file)
    /\ pc = "done" => (config = prev_file /\ Some(file) = Alone(prev_file))

\* the first file left an Option(Yes) region open; the second file, "# secret=1",
\* was processed after it and is unchanged
C19_Witness ==
    /\ pc = "done"
    /\ log # <<>>
    /\ log[1].seg = SegOption("Yes")
    /\ prev_file = MkFile(<<l_c_secret>>, b_lf, TRUE)
    /\ file = prev_file


\* what follows the `<marker> CORPL ` prefix of a trimmed line
HasPrefix(line) == StartsWith(trim(line), comment \o b_CORPL)
Remainder(line) == Drop(trim(line), Len(comment) + Len(b_CORPL))
\* the remainder is none of `end` (with the closing marker's echo, if one is
\* configured), `section <text>`, `option <expr>`
UnknownVerb(rem) ==
    /\ rem # b_end
    /\ end_comment # None => rem # b_end_sp \o end_comment[1]
    /\ ~StartsWith(rem, b_section)
    /\ ~StartsWith(rem, b_option)

\* C20: a line with the `<marker> CORPL ` prefix whose remainder is none of `end`,
\* `section <text>`, `option <expr>` leaves the Segment unchanged and is emitted
\* with exactly its input bytes, whichever Segment is active.
C20_UnknownVerb ==
    (last.valid /\ HasPrefix(last.line) /\ UnknownVerb(Remainder(last.line))) =>
        /\ ~last.panic
        /\ state = last.seg
        /\ last.out = last.line


\* C21: with a closing marker configured, a line `<marker> CORPL end` is an End
\* both without and with the ` <closing-marker>` echo and sets the Segment to None;
\* a `<marker> CORPL end` followed by any other text is not an End.
C21_EndWithClosing ==
    /\ (last.valid /\ end_comment # None /\ HasPrefix(last.line)
            /\ Remainder(last.line) \in {b_end, b_end_sp \o end_comment[1]}) =>
            (~last.panic /\ last.kind = "end" /\ state = SegNone)
    /\ (last.valid /\ end_comment # None /\ HasPrefix(last.line)
            /\ Remainder(last.line) \notin {b_end, b_end_sp \o end_comment[1]}) =>
            last.kind # "end"


\* a line of a warning was printed by the latest iteration
Printed(w) == \E i \in 1..Len(last.warn) : last.warn[i] = w

\* C22: with a closing marker configured a section directive prints the warning
\* and leaves the Segment None, and every data line after it, up to the next
\* directive, is emitted unchanged.
C22_SectionWithClosing ==
    /\ (last.valid /\ ~last.panic /\ last.kind = "section" /\ end_comment # None) =>
            (Printed(w_incompatible) /\ state = SegNone /\ last.out = last.line)
    /\ (last.valid /\ last.dir = "section" /\ end_comment # None
            /\ last.kind \in {"data", "blank"}) =>
            (~last.panic /\ last.seg = SegNone /\ state = SegNone
                /\ last.out = last.line)

\* after "/* CORPL option foo */" with foo enabled and then
\* "/* CORPL section x */", the inactive line "/* x */" is emitted as it is
C22_Witness ==
    /\ last.valid /\ last.dir = "section" /\ last.kind = "data"
    /\ end_comment = Some(b_close_block)
    /\ foo \in enabled
    /\ StartsWith(prev_file, l_b_option)
    /\ last.line = l_b_x /\ last.out = l_b_x


\* what follows the `<marker> CORPL ` prefix on the raw line, trailing whitespace
\* included
RawRemainder(line) == Drop(Body(line), Len(comment) + Len(b_CORPL))
\* a section directive line whose replacement text is empty
EmptySectionLine(line) ==
    /\ HasPrefix(line)
    /\ StartsWith(RawRemainder(line), b_section)
    /\ \A i \in (Len(b_section) + 1)..Len(RawRemainder(line)) :
            is_whitespace(RawRemainder(line)[i])

\* C23: a section directive whose replacement text is empty is accepted as a
\* directive: the Segment becomes Section with empty text and the warning is
\* printed.
C23_EmptySectionText ==
    (last.valid /\ end_comment = None /\ EmptySectionLine(last.line)) =>
        /\ last.kind = "section"
        /\ state = SegSection(<<>>)
        /\ Printed(w_no_replacement)


\* s without its trailing whitespace
TrimEnd(s) ==
    IF \A i \in 1..Len(s) : is_whitespace(s[i]) THEN <<>>
    ELSE SubSeq(s, 1, CHOOSE i \in 1..Len(s) :
                        ~is_whitespace(s[i]) /\ \A j \in (i + 1)..Len(s) : is_whitespace(s[j]))

\* C24: the text stored in Section(text) is everything after `section ` on the
\* directive line with trailing whitespace removed and the leading whitespace of
\* the text kept, however much whitespace precedes the marker or follows the text.
C24_SectionText ==
    (last.valid /\ ~last.panic /\ last.kind = "section" /\ end_comment = None) =>
        state = SegSection(TrimEnd(SectionText(last.line)))


\* the target of a Section line: its identifier is enabled (activate), or it is
\* disabled or the line has no identifier (deactivate)
ToActivate(line) ==
    /\ Governing(line) # None
    /\ Known(Governing(line)[1]) /\ StatusEnabled(Governing(line)[1])
ToDeactivate(line) ==
    \/ Governing(line) = None
    \/ Known(Governing(line)[1]) /\ ~StatusEnabled(Governing(line)[1])
\* the latest iteration handled a data line in Section(text), no closing marker
SectionLine ==
    /\ last.valid /\ last.kind = "data" /\ last.seg.tag = "Section"
    /\ end_comment = None

\* C25: in Section(text) with no closing marker, an active line to deactivate that
\* begins, after leading whitespace, with text has exactly that text replaced by
\* `<marker><space>`; an inactive line to activate has its leading
\* `<marker><space>` replaced by text; an active line to deactivate that does not
\* begin with text is emitted unchanged, with a warning.
C25_SectionRewrite ==
    SectionLine =>
        /\ ~last.panic
        /\ (ToDeactivate(last.line) /\ ~Inactive(last.line)
                /\ StartsWith(Body(last.line), last.seg.str)) =>
                last.out = Lead(last.line) \o comment \o <<32>>
                             \o Drop(Body(last.line), Len(last.seg.str))
        /\ (ToActivate(last.line) /\ Inactive(last.line)) =>
                last.out = Lead(last.line) \o last.seg.str
                             \o Drop(Body(last.line), Len(comment) + 1)
        /\ (ToDeactivate(last.line) /\ ~Inactive(last.line)
                /\ ~StartsWith(Body(last.line), last.seg.str)) =>
                (last.out = last.line /\ Printed(w_not_present))

\* "// =81 // bar" in Section("port=80") with bar enabled came out as
\* "port=80=81 // bar"
C25_Witness ==
    /\ SectionLine /\ bar \in enabled
    /\ last.seg = SegSection(l_port)
    /\ last.line = l_s_alt_bar
    /\ last.out = l_port \o Drop(l_s_alt_bar, 3)


\* the identifier of a line: what follows the last `<marker><space>` in it
IdentifierOf(line) ==
    LET occ == {p \in 1..Len(line) : StartsWith(Drop(line, p - 1), comment \o <<32>>)}
    IN  IF occ = {} THEN None
        ELSE Some(Drop(line, (CHOOSE p \in occ : \A q \in occ : q <= p) + Len(comment)))
\* the target activation of a Section line: None if the identifier's status is
\* unknown
Target(line) ==
    IF IdentifierOf(line) = None THEN Some(FALSE)
    ELSE IF ~Known(IdentifierOf(line)[1]) THEN None
    ELSE Some(StatusEnabled(IdentifierOf(line)[1]))
\* what the rewrite rules of a Section region give for a line and a target
SectionRewritten(line, text, target) ==
    IF target = ~Inactive(line) THEN line
    ELSE IF target THEN Lead(line) \o text \o Drop(Body(line), Len(comment) + 1)
    ELSE IF StartsWith(Body(line), text)
    THEN Lead(line) \o comment \o <<32>> \o Drop(Body(line), Len(text))
    ELSE line

\* C26: the identifier of a Section line is the text after the last
\* `<marker><space>` of the line; a line without one is targeted for deactivation
\* whatever keep is; a line whose identifier has an unknown status is emitted
\* unchanged; otherwise the target is the identifier's status.
C26_SectionTarget ==
    SectionLine =>
        /\ ~last.panic
        /\ last.out = IF Target(last.line) = None THEN last.line
                      ELSE SectionRewritten(last.line, last.seg.str, Target(last.line)[1])

\* keep is on and "port=80" carries no identifier: in Section("port=80") it is
\* deactivated to "// "
C26_Witness ==
    /\ SectionLine /\ keep
    /\ last.seg = SegSection(l_port)
    /\ last.line = l_port
    /\ last.out = l_s_blank


\* the latest iteration handled a data line in the Option region `opt`
OptionLine(opt) == last.valid /\ last.kind = "data" /\ last.seg = SegOption(opt)
\* ` <closing-marker>` if one is configured
ClosingSuffix == IF end_comment = None THEN <<>> ELSE <<32>> \o end_comment[1]

\* C27: in an Option(No) region an active data line gets `<marker><space>`
\* inserted right after its leading whitespace and, with a closing marker
\* configured, `<space><closing-marker>` appended; an inactive line is emitted
\* unchanged, and so is an active line in Option(Yes).
C27_OptionDeactivation ==
    /\ (OptionLine("No") /\ ~Inactive(last.line)) =>
            /\ ~last.panic
            /\ last.out = Lead(last.line) \o comment \o <<32>> \o Body(last.line)
                            \o ClosingSuffix
    /\ (OptionLine("No") /\ Inactive(last.line)) =>
            (~last.panic /\ last.out = last.line)
    /\ (OptionLine("Yes") /\ ~Inactive(last.line)) =>
            (~last.panic /\ last.out = last.line)


\* currently_active as the iteration computed it, from the line alone
Classified(line) == IF Inactive(line) THEN "no" ELSE "yes"

\* C28: the classification of a non-blank data line is total and the same in both
\* region kinds: inactive iff, after leading whitespace, the line begins with the
\* marker followed by a space; a line that is just the marker, or the marker and a
\* non-space byte, is active in an Option region as in a Section region.
C28_Classification ==
    /\ (last.valid /\ last.kind = "data" /\ last.seg.tag = "Option") =>
            (~last.panic /\ last.active = Classified(last.line))
    /\ (SectionLine /\ Target(last.line) # None) =>
            (~last.panic /\ last.active = Classified(last.line))


\* the first whitespace-delimited token of a byte sequence (whitespace is space,
\* tab, LF, VT, FF, CR): its longest prefix without a whitespace byte
FirstToken(f) ==
    SubSeq(f, 1, Cardinality({k \in 1..Len(f) : \A i \in 1..k : ~is_whitespace(f[i])}))
\* the marker was taken from the first line
AutoDetected ==
    /\ pc \in {"scan", "done"}
    /\ get_common_comments(config) = None
    /\ GivenOpen = None

\* C29: a marker taken from the first line under a bound N is exactly the first
\* whitespace-delimited token of that line and is at most N bytes long; processing
\* does not go on when that token is longer than N.
C29_AutoDetectedMarker ==
    (AutoDetected /\ max_comment_len # None) =>
        /\ comment = FirstToken(config)
        /\ Len(comment) <= max_comment_len[1]
        /\ Len(FirstToken(config)) <= max_comment_len[1]


\* the style the first CR or LF byte of f stands for
StyleOf(f) ==
    IF \A i \in 1..Len(f) : f[i] \notin {10, 13} THEN b_lf
    ELSE IF f[CHOOSE i \in 1..Len(f) :
                f[i] \in {10, 13} /\ \A j \in 1..(i - 1) : f[j] \notin {10, 13}] = 13
    THEN b_crlf ELSE b_lf

\* C30: the line-ending style is decided once, from the first CR or LF byte of the
\* input (CR gives "\r\n", LF and none give "\n"), and every emitted line,
\* rewritten or not, ends with exactly that terminator: the output holds one style
\* even when the input mixes them.
C30_UniformTerminators ==
    /\ pc \in {"scan", "done", "panic"} /\ (pc = "panic" => last.valid) =>
            /\ line_ending = StyleOf(config)
            /\ TerminatedBy(output, line_ending)
    /\ (last.valid /\ ~last.panic) =>
            /\ \A i \in 1..Len(last.out) : last.out[i] \notin {10, 13}
            /\ EndsWith(output, last.out \o line_ending)
    /\ pc = "done" => TerminatedBy(file, StyleOf(prev_file))

\* a file with "\r\n" after its first line and "\n" after the others was written
\* back with "\r\n" throughout
C30_Witness ==
    /\ pc = "done"
    /\ prev_file = MixedCrlfFirst
    /\ OnlyCRLF(file)
    /\ Len(file) = Len(prev_file) + 2


\* s without its CR and LF bytes
RECURSIVE NoTerminators(_)
NoTerminators(s) ==
    IF s = <<>> THEN <<>>
    ELSE (IF Head(s) \in {10, 13} THEN <<>> ELSE <<Head(s)>>) \o NoTerminators(Tail(s))
\* the bytes of s from 0-based position a up to b, cut at the end of s
Between(s, a, b) == SubSeq(s, a + 1, IF b > Len(s) THEN Len(s) ELSE b)

\* C31: the Lines iterator terminates on every input and drops no byte that is
\* not part of a terminator: a call never aborts, each yielded line is what lies
\* between the old and the new position with the terminator bytes removed (also
\* after a lone CR), and the iterator ends at the end of the input (also when the
\* final line has no terminator).
C31_LinesConserve ==
    [][/\ ~(pc' = "panic" /\ ~last'.panic)
       /\ (pc = "scan" /\ current_pos' # current_pos) =>
            last'.line = NoTerminators(Between(config, current_pos, current_pos'))
       /\ pc' = "done" => current_pos' = Len(config)]_vars


\* the line an Option(No) pass and then an Option(Yes) pass leave of a line: the
\* two iterations and what the second one emits
Toggled(line) ==
    LET no == OptionArm(SegOption("No"), line)
        yes == OptionArm(SegOption("Yes"), no.out)
    IN  [panic |-> no.panic \/ yes.panic, out |-> yes.out]

\* C32: every active non-blank data line of an Option region, deactivated under
\* Option(No) and then activated under Option(Yes), comes back byte for byte, with
\* and without a closing marker.
C32_ToggleRoundTrip ==
    (/\ last.valid /\ last.kind = "data" /\ last.seg.tag = "Option"
     /\ ~Inactive(last.line)) =>
        (~Toggled(last.line).panic /\ Toggled(last.line).out = last.line)


\* process_file called twice on the same bytes with keep off, the second time
\* with another disabled set; log keeps what the first call did
TwoCallsInit ==
    /\ (InitExpr \/ InitSlash) /\ ~keep
    /\ remaining = <<>>
    /\ SplitIdle

\* the first call is over: the same bytes are put back in the file and
\* process_file is called with another disabled set
CallOtherDisabled ==
    /\ pc \in {"done", "exit", "panic"}
    /\ log = <<>>
    /\ \E d \in SUBSET {foo, bar} : d # disabled /\ disabled' = d
    /\ log' = <<[input |-> prev_file, seg |-> state, written |-> file,
                 ended |-> pc, said |-> diag, disabled |-> disabled]>>
    /\ file' = prev_file
    /\ pc' = "start"
    /\ UNCHANGED <<comment_arg, enabled, keep, max_comment_len, run, config,
                   line_ending, comment, end_comment, current_pos, state, output,
                   diag, last, prev_file, remaining, ss_vars>>

TwoCallsNext == Begin \/ ScanLine \/ WriteBack \/ CallOtherDisabled

TwoCallsSpec == TwoCallsInit /\ [][TwoCallsNext]_vars

\* the second call is over
SecondCallOver == log # <<>> /\ pc \in {"done", "exit", "panic"}

\* C33: with keep off the disabled set has no influence: two calls of
\* process_file on the same bytes with the same marker and enabled set and
\* different disabled sets end alike and leave the same bytes in the file.
C33_DisabledIgnored ==
    SecondCallOver =>
        /\ file = log[1].written
        /\ pc = log[1].ended
        /\ diag = log[1].said
\* both calls rewrote the file, the second with a disabled set that shares an
\* identifier with the enabled set where the first had none
C33_Witness ==
    /\ SecondCallOver /\ pc = "done"
    /\ file # prev_file
    /\ log[1].disabled = {}
    /\ disabled \cap enabled # {}
    /\ last.valid /\ last.dir \in {"option", "section"}


\* C34: whichever way the marker was resolved (conventional, caller-supplied,
\* first token of the first line), the opening marker the scan works with has at
\* least one byte, also for a file whose first line is blank or starts with a space.
C34_MarkerNonEmpty ==
    pc \in {"scan", "done"} => Len(comment) >= 1

====
